---- MODULE Spec2Model ----
(***************************************************************************)
(* A model of script.js, the chat widget of the menstrual-health chatbot:  *)
(* the setup handler (completeSetupBtn click), calculateCyclePhase,        *)
(* sendMessage and addMessage.  The page is single threaded: every action  *)
(* below is one run-to-completion task of the event loop, either a UI      *)
(* event or the continuation of one sendMessage invocation after one of    *)
(* its awaits.                                                             *)
(*                                                                         *)
(* Strings are TLA+ strings.  JavaScript values that may be of several     *)
(* types (null, undefined, string, number) are tagged records, see Null,   *)
(* Str and Num.  The two non-ASCII characters of the source's literals are *)
(* written as ASCII: the em dash as "--" and the emoji as "<3".            *)
(***************************************************************************)
EXTENDS Integers, Sequences, FiniteSets, TLC

(***************************************************************************)
(* Bounds of the model.                                                    *)
(***************************************************************************)
MaxSends == 2
MaxReloads == 1
MaxContentLen == 4

(***************************************************************************)
(* JavaScript values.                                                      *)
(***************************************************************************)
Null == [t |-> "null", s |-> "", n |-> 0]
Undefined == [t |-> "undefined", s |-> "", n |-> 0]
NaN == [t |-> "NaN", s |-> "", n |-> 0]
Str(s) == [t |-> "string", s |-> s, n |-> 0]
Num(n) == [t |-> "number", s |-> "", n |-> n]
Bool(b) == [t |-> "boolean", s |-> "", n |-> IF b THEN 1 ELSE 0]

\* ToBoolean: null, undefined, NaN, 0 and "" are falsy.
Truthy(v) ==
    CASE v.t = "string" -> v.s # ""
      [] v.t = "number" -> v.n # 0
      [] v.t = "boolean" -> v.n # 0
      [] OTHER -> FALSE

\* a || b
Or(a, b) == IF Truthy(a) THEN a ELSE b

Char(s, i) == SubSeq(s, i, i)

WhiteSpace == {" ", "\t", "\n"}

\* index of the first character of s at or after i that is not white space
RECURSIVE SkipForward(_, _)
SkipForward(s, i) ==
    IF i <= Len(s) /\ Char(s, i) \in WhiteSpace THEN SkipForward(s, i + 1) ELSE i

\* index of the last character of s at or before i that is not white space
RECURSIVE SkipBackward(_, _)
SkipBackward(s, i) ==
    IF i >= 1 /\ Char(s, i) \in WhiteSpace THEN SkipBackward(s, i - 1) ELSE i

\* a trim that returns its argument
TrimMissing(s) == s

\* String.prototype.trim
Trim(s) == SubSeq(s, SkipForward(s, 1), SkipBackward(s, Len(s)))

Digits == <<"0", "1", "2", "3", "4", "5", "6", "7", "8", "9">>

IsDigit(c) == \E d \in 1..10 : Digits[d] = c

DigitValue(c) == (CHOOSE d \in 1..10 : Digits[d] = c) - 1

\* the value of the first n characters of s, all digits, read in base ten
RECURSIVE DecimalPrefix(_, _)
DecimalPrefix(s, n) ==
    IF n = 0 THEN 0
    ELSE 10 * DecimalPrefix(s, n - 1) + DigitValue(Char(s, n))

DecimalValue(s) == DecimalPrefix(s, Len(s))

AllDigits(s) == s # "" /\ \A i \in 1..Len(s) : IsDigit(Char(s, i))

\* StringToNumber on the decimal integer syntax: surrounding white space is
\* dropped, the empty string is 0, an optional sign precedes the digits, and
\* anything else is NaN.  (-0 is 0 here: the two print and serialise alike.)
StringToNumber(s) ==
    LET t == Trim(s)
        signed == t # "" /\ Char(t, 1) \in {"-", "+"}
        body == IF signed THEN SubSeq(t, 2, Len(t)) ELSE t
    IN  IF t = "" THEN Num(0)
        ELSE IF ~AllDigits(body) THEN NaN
        ELSE IF signed /\ Char(t, 1) = "-" THEN Num(0 - DecimalValue(body))
        ELSE Num(DecimalValue(body))

\* Number(v)
Number(v) ==
    CASE v.t = "string" -> StringToNumber(v.s)
      [] v.t = "number" -> v
      [] v.t = "null" -> Num(0)
      [] v.t = "boolean" -> Num(v.n)
      [] OTHER -> NaN

RECURSIVE NatToString(_)
NatToString(n) ==
    IF n < 10 THEN Digits[n + 1]
    ELSE NatToString(n \div 10) \o Digits[(n % 10) + 1]

\* String(v), the conversion localStorage.setItem applies to its value
JsString(v) ==
    CASE v.t = "string" -> v.s
      [] v.t = "number" -> IF v.n < 0 THEN "-" \o NatToString(0 - v.n)
                           ELSE NatToString(v.n)
      [] v.t = "NaN" -> "NaN"
      [] v.t = "null" -> "null"
      [] v.t = "boolean" -> IF v.n = 0 THEN "false" ELSE "true"
      [] OTHER -> "undefined"

\* The value JSON.stringify writes for a property: NaN is written as null.
JsonValue(v) == IF v.t = "NaN" THEN Null ELSE v

(***************************************************************************)
(* Inputs.                                                                 *)
(***************************************************************************)
\* contents of the last-period date field
LastPeriodFields == {"", "2025-01-01"}

\* contents of the cycle-length field
CycleLengthFields == {"", "30", "0", "abc"}

\* contents of the message field
UserInputs == {"", "  ", " hi "}

VARIABLES
    userLastPeriodDate,   \* script.js:15
    userCycleLength,      \* script.js:16
    localStorage,         \* the keys 'lastPeriodDate' and 'cycleLength'
    setupScreen,          \* setupScreen.style.display
    loading,              \* loading.style.display
    chatContainer,        \* the message elements, in document order
    sends,                \* the invocations of sendMessage of this page
    reloads,              \* page loads so far
    event                 \* the task the event loop ran last

vars == <<userLastPeriodDate, userCycleLength, localStorage, setupScreen,
          loading, chatContainer, sends, reloads, event>>

(***************************************************************************)
(* Literals of the source.                                                 *)
(***************************************************************************)
SetupPrompt == "Please complete the setup so I can understand your cycle <3"
Fallback == "I'm sorry -- I couldn't generate a response."
ErrorPrefix == "Error: "
CalcFailedMessage == "Failed to calculate cycle phase"
UnknownErrorMessage == "Unknown error occurred"
Persona == "You are Luna, a compassionate AI health companion specializing in menstrual health and hormonal science. A user is sharing their symptoms or experiences. \nProvide validation and scientifically-backed insights about how their symptoms relate to hormonal cycles. Be warm, supportive, and informative. Keep responses concise but meaningful. Avoid medical diagnosis. \n"

(***************************************************************************)
(* The network, as the page sees it.  fetch either rejects (a TypeError    *)
(* with the browser's message) or resolves to a Response; reading the body *)
(* of a Response as JSON either rejects (a SyntaxError) or gives a value.  *)
(***************************************************************************)
FetchErrorMessage == "Failed to fetch"
JsonErrorMessage == "Unexpected token < in JSON at position 0"

\* A response body: parses says whether it is JSON, the other fields are the
\* properties the page reads from the parsed value (Undefined when missing).
Body(parses, success, error, cycle_day, phase, content) ==
    [parses |-> parses, success |-> success, error |-> error,
     cycle_day |-> cycle_day, phase |-> phase, content |-> content]

NotJson == Body(FALSE, Undefined, Undefined, Undefined, Undefined, Undefined)

\* bodies of the calculation service
CalcBodies ==
    { NotJson,
      Body(TRUE, Bool(TRUE), Undefined, Num(5), Str("menstrual phase"), Undefined),
      Body(TRUE, Bool(FALSE), Str("Invalid date format"), Undefined, Undefined, Undefined),
      Body(TRUE, Bool(FALSE), Undefined, Undefined, Undefined, Undefined) }

\* the strings of at most n characters, each from chars
RECURSIVE Strings(_, _)
Strings(chars, n) ==
    IF n = 0 THEN {""}
    ELSE LET shorter == Strings(chars, n - 1)
         IN  shorter \cup { s \o c : s \in shorter, c \in chars }

\* message contents the completion service may return
ContentChars == {"~", "a"}
Contents == Strings(ContentChars, MaxContentLen)

\* A non-OK response is answered before its body is read: one body stands
\* for all of them.
CalcResponses ==
    { [ok |-> FALSE, body |-> NotJson] } \cup
    { [ok |-> TRUE, body |-> b] : b \in CalcBodies }

\* bodies of the completion service; content is
\* data.choices?.[0]?.message?.content, Undefined when choices (or the
\* first choice's message content) is missing
ChatBodies ==
    { NotJson } \cup
    { Body(TRUE, Undefined, Undefined, Undefined, Undefined, c) :
        c \in { Undefined, Str(""), Str("Rest ~~well~~ today") } }

ChatResponses == { [ok |-> o, body |-> b] : o \in BOOLEAN, b \in ChatBodies }

\* the successful responses of the two services
CalcSuccesses == { r \in CalcResponses : r.ok /\ Truthy(r.body.success) }

ContentResponses ==
    { [ok |-> TRUE,
       body |-> Body(TRUE, Undefined, Undefined, Undefined, Undefined, Str(c))] :
        c \in Contents }

NoResponse == [ok |-> FALSE, body |-> NotJson]

\* The body of a request: url names the service, the other fields are the
\* properties of the JSON body that depend on the page's state.
CalcRequest(lastPeriodDate, cycleLength) ==
    [url |-> "/api/calculate-cycle",
     last_period_date |-> JsonValue(lastPeriodDate),
     cycle_length |-> JsonValue(cycleLength),
     content |-> ""]

ChatRequest(content) ==
    [url |-> "/api/v1/chat/completions",
     last_period_date |-> Undefined, cycle_length |-> Undefined,
     content |-> content]

NoRequest ==
    [url |-> "", last_period_date |-> Undefined, cycle_length |-> Undefined,
     content |-> ""]

(***************************************************************************)
(* State.                                                                  *)
(***************************************************************************)
\* The task the event loop runs: a UI event with the contents of the fields
\* it reads, or the settlement of the promise invocation k awaits.
Event(op, k, fields, rejected, response) ==
    [op |-> op, k |-> k, fields |-> fields, rejected |-> rejected,
     response |-> response]

\* One invocation of sendMessage: its message, the await it is suspended at
\* (pc), the request it has outstanding, the Response whose body it reads,
\* and whether the promise it awaits never settles (hung).
Invocation(message, pc, request, response) ==
    [message |-> message, pc |-> pc, request |-> request,
     response |-> response, hung |-> FALSE]

Returned(message) == Invocation(message, "done", NoRequest, NoResponse)

Awaiting == {"calcFetch", "calcJson", "chatFetch", "chatJson"}

InFlight(k) == sends[k].pc \in Awaiting

Init ==
    /\ userLastPeriodDate = Null
    /\ userCycleLength = Num(28)
    /\ localStorage = [lastPeriodDate |-> Null, cycleLength |-> Null]
    /\ setupScreen = ""
    /\ loading = ""
    /\ chatContainer = <<>>
    /\ sends = <<>>
    /\ reloads = 0
    /\ event = Event("load", 0, <<>>, FALSE, NoResponse)

(***************************************************************************)
(* The setup handler.                                                      *)
(***************************************************************************)
\* the setup handler without its check of the date
SetupNeverRejected(lastPeriod) == FALSE

\* if (!lastPeriod) { alert(...); return; }
SetupRejected(lastPeriod) == ~Truthy(lastPeriod)

\* the cycle length without its default
CycleLengthWithoutDefault(field) == Number(Str(field))

\* const cycleLength = setupCycleLengthInput.value || 28;
\* userCycleLength = Number(cycleLength);
CycleLengthOf(field) == Number(Or(Str(field), Num(28)))

\* localStorage.setItem(key, value) stores String(value)
\* a setItem that stores nothing
SetItemSkipped(store, key, value) == store

SetItem(store, key, value) == [store EXCEPT ![key] = Str(JsString(value))]

CompleteSetup(lastPeriodField, cycleLengthField) ==
    LET lastPeriod == Str(lastPeriodField)
    IN  /\ event' = Event("completeSetup", 0,
                          <<lastPeriodField, cycleLengthField>>, FALSE, NoResponse)
        /\ IF SetupRejected(lastPeriod)
           THEN UNCHANGED <<userLastPeriodDate, userCycleLength, localStorage,
                            setupScreen>>
           ELSE /\ userLastPeriodDate' = lastPeriod
                /\ userCycleLength' = CycleLengthOf(cycleLengthField)
                /\ localStorage' =
                     SetItem(SetItem(localStorage, "lastPeriodDate", lastPeriod),
                             "cycleLength", userCycleLength')
                /\ setupScreen' = "none"
        /\ UNCHANGED <<loading, chatContainer, sends, reloads>>

(***************************************************************************)
(* addMessage and sendMessage.                                             *)
(***************************************************************************)
\* an addMessage that inserts the entry before the first child
addMessageOnTop(container, text, sender) ==
    <<[text |-> text, sender |-> sender]>> \o container

\* chatContainer.appendChild(messageDiv)
addMessage(container, text, sender) ==
    Append(container, [text |-> text, sender |-> sender])

\* sendMessage without its guard
NeedsSetupNever(lastPeriodDate) == FALSE

\* if (!userLastPeriodDate)
NeedsSetup(lastPeriodDate) == ~Truthy(lastPeriodDate)

\* sendMessage without its finally block
FinallyMissing(display) == display

\* finally { loading.style.display = "none"; }
Finally(display) == "none"

\* a catch block that shows the bare message
CatchTextNoPrefix(message) == message

\* catch (error) { addMessage("Error: " + error.message, 'assistant'); }
CatchText(message) == ErrorPrefix \o message

\* a catch block that shows nothing
ThrowSilently(k, message) ==
    /\ chatContainer' = chatContainer
    /\ loading' = Finally(loading)
    /\ sends' = [sends EXCEPT ![k] = Returned(@.message)]

\* The path of invocation k from a throw inside the try block to its return.
Throw(k, message) ==
    /\ chatContainer' = addMessage(chatContainer, CatchText(message), "assistant")
    /\ loading' = Finally(loading)
    /\ sends' = [sends EXCEPT ![k] = Returned(@.message)]

\* s from its i-th character on, without the matches of /~~/g: the matches
\* are found from left to right and do not overlap
RECURSIVE RemoveTildesFrom(_, _)
RemoveTildesFrom(s, i) ==
    IF i > Len(s) THEN ""
    ELSE IF i < Len(s) /\ SubSeq(s, i, i + 1) = "~~" THEN RemoveTildesFrom(s, i + 2)
    ELSE Char(s, i) \o RemoveTildesFrom(s, i + 1)

\* replace without the g flag: only the first match is removed
RemoveFirstTildes(s) ==
    LET matches == { i \in 1..(Len(s) - 1) : SubSeq(s, i, i + 1) = "~~" }
        first == CHOOSE i \in matches : \A j \in matches : i <= j
    IN  IF matches = {} THEN s
        ELSE SubSeq(s, 1, first - 1) \o SubSeq(s, first + 2, Len(s))

\* markdownText.replace(/~~/g, '')
RemoveTildes(s) == RemoveTildesFrom(s, 1)

CycleInfoText(cycleInfo) ==
    "The user is currently on cycle day " \o JsString(cycleInfo.cycle_day)
        \o ", in the " \o JsString(cycleInfo.phase) \o "."

Prompt(cycleInfoText, message) ==
    Persona \o cycleInfoText \o "\nUser message: " \o message

\* a sendMessage that the page accepts only while no send is in flight
SendMessageWhenIdle(input) ==
    LET message == Trim(input)
        shown == addMessage(chatContainer, message, "user")
    IN  /\ \A k \in DOMAIN sends : ~InFlight(k)
        /\ event' = Event("sendMessage", 0, <<input>>, FALSE, NoResponse)
        /\ IF message = ""
           THEN UNCHANGED <<chatContainer, loading, sends>>
           ELSE /\ Len(sends) < MaxSends
                /\ IF NeedsSetup(userLastPeriodDate)
                   THEN /\ chatContainer' = addMessage(shown, SetupPrompt, "assistant")
                        /\ loading' = Finally("none")
                        /\ sends' = Append(sends, Returned(message))
                   ELSE /\ chatContainer' = shown
                        /\ loading' = "block"
                        /\ sends' = Append(sends,
                             Invocation(message, "calcFetch",
                                 CalcRequest(userLastPeriodDate, userCycleLength),
                                 NoResponse))
        /\ UNCHANGED <<userLastPeriodDate, userCycleLength, localStorage,
                       setupScreen, reloads>>

\* sendMessage up to its first await (or its return)
SendMessage(input) ==
    LET message == Trim(input)
        shown == addMessage(chatContainer, message, "user")
    IN  /\ event' = Event("sendMessage", 0, <<input>>, FALSE, NoResponse)
        /\ IF message = ""
           THEN UNCHANGED <<chatContainer, loading, sends>>
           ELSE /\ Len(sends) < MaxSends
                /\ IF NeedsSetup(userLastPeriodDate)
                   THEN /\ chatContainer' = addMessage(shown, SetupPrompt, "assistant")
                        /\ loading' = Finally("none")
                        /\ sends' = Append(sends, Returned(message))
                   ELSE /\ chatContainer' = shown
                        /\ loading' = "block"
                        /\ sends' = Append(sends,
                             Invocation(message, "calcFetch",
                                 CalcRequest(userLastPeriodDate, userCycleLength),
                                 NoResponse))
        /\ UNCHANGED <<userLastPeriodDate, userCycleLength, localStorage,
                       setupScreen, reloads>>

FetchOutcomes(responses) ==
    { [rejected |-> TRUE, response |-> NoResponse] } \cup
    { [rejected |-> FALSE, response |-> r] : r \in responses }

\* calculateCyclePhase: the fetch settles
CalcFetchSettles(k, outcome) ==
    /\ k \in DOMAIN sends
    /\ sends[k].pc = "calcFetch" /\ ~sends[k].hung
    /\ event' = Event("calcFetch", k, <<>>, outcome.rejected, outcome.response)
    /\ IF outcome.rejected
       THEN Throw(k, FetchErrorMessage)
       ELSE IF ~outcome.response.ok
       THEN Throw(k, CalcFailedMessage)
       ELSE /\ sends' = [sends EXCEPT ![k] =
                    Invocation(@.message, "calcJson", NoRequest, outcome.response)]
            /\ UNCHANGED <<chatContainer, loading>>
    /\ UNCHANGED <<userLastPeriodDate, userCycleLength, localStorage,
                   setupScreen, reloads>>

\* a calculateCyclePhase that returns the data without testing data.success
CalcJsonSettlesUnchecked(k) ==
    /\ k \in DOMAIN sends
    /\ sends[k].pc = "calcJson" /\ ~sends[k].hung
    /\ event' = Event("calcJson", k, <<>>, ~sends[k].response.body.parses,
                      sends[k].response)
    /\ LET data == sends[k].response.body
       IN  IF ~data.parses
           THEN Throw(k, JsonErrorMessage)
           ELSE /\ sends' = [sends EXCEPT ![k] =
                        Invocation(@.message, "chatFetch",
                            ChatRequest(Prompt(CycleInfoText(data), @.message)),
                            NoResponse)]
                /\ UNCHANGED <<chatContainer, loading>>
    /\ UNCHANGED <<userLastPeriodDate, userCycleLength, localStorage,
                   setupScreen, reloads>>

\* calculateCyclePhase: response.json() settles; on success sendMessage goes
\* on to its fetch of the completion service
CalcJsonSettles(k) ==
    /\ k \in DOMAIN sends
    /\ sends[k].pc = "calcJson" /\ ~sends[k].hung
    /\ event' = Event("calcJson", k, <<>>, ~sends[k].response.body.parses,
                      sends[k].response)
    /\ LET data == sends[k].response.body
       IN  IF ~data.parses
           THEN Throw(k, JsonErrorMessage)
           ELSE IF ~Truthy(data.success)
           THEN Throw(k, JsString(Or(data.error, Str(UnknownErrorMessage))))
           ELSE /\ sends' = [sends EXCEPT ![k] =
                        Invocation(@.message, "chatFetch",
                            ChatRequest(Prompt(CycleInfoText(data), @.message)),
                            NoResponse)]
                /\ UNCHANGED <<chatContainer, loading>>
    /\ UNCHANGED <<userLastPeriodDate, userCycleLength, localStorage,
                   setupScreen, reloads>>

\* sendMessage: the fetch of the completion service settles
ChatFetchSettles(k, outcome) ==
    /\ k \in DOMAIN sends
    /\ sends[k].pc = "chatFetch" /\ ~sends[k].hung
    /\ event' = Event("chatFetch", k, <<>>, outcome.rejected, outcome.response)
    /\ IF outcome.rejected
       THEN Throw(k, FetchErrorMessage)
       ELSE /\ sends' = [sends EXCEPT ![k] =
                    Invocation(@.message, "chatJson", NoRequest, outcome.response)]
            /\ UNCHANGED <<chatContainer, loading>>
    /\ UNCHANGED <<userLastPeriodDate, userCycleLength, localStorage,
                   setupScreen, reloads>>

\* the reply without its fallback
ReplyTextNoFallback(content) == RemoveTildes(JsString(content))

\* data.choices?.[0]?.message?.content || "I'm sorry ...", without "~~"
ReplyText(content) == RemoveTildes(Or(content, Str(Fallback)).s)

\* sendMessage: response.json() of the completion service settles
ChatJsonSettles(k) ==
    /\ k \in DOMAIN sends
    /\ sends[k].pc = "chatJson" /\ ~sends[k].hung
    /\ event' = Event("chatJson", k, <<>>, ~sends[k].response.body.parses,
                      sends[k].response)
    /\ LET data == sends[k].response.body
       IN  IF ~data.parses
           THEN Throw(k, JsonErrorMessage)
           ELSE /\ chatContainer' =
                     addMessage(chatContainer, ReplyText(data.content), "assistant")
                /\ loading' = Finally(loading)
                /\ sends' = [sends EXCEPT ![k] = Returned(@.message)]
    /\ UNCHANGED <<userLastPeriodDate, userCycleLength, localStorage,
                   setupScreen, reloads>>

\* a fetch with a timeout: the hang is turned into a rejection
HangTimesOut(k) ==
    /\ k \in DOMAIN sends
    /\ InFlight(k) /\ ~sends[k].hung
    /\ event' = Event("hang", k, <<>>, FALSE, NoResponse)
    /\ chatContainer' =
         addMessage(chatContainer, ErrorPrefix \o "The operation timed out.", "assistant")
    /\ loading' = "none"
    /\ sends' = [sends EXCEPT ![k] = Returned(@.message)]
    /\ UNCHANGED <<userLastPeriodDate, userCycleLength, localStorage,
                   setupScreen, reloads>>

\* The promise invocation k awaits never settles: the code sets no timeout
\* on either fetch.
Hang(k) ==
    /\ k \in DOMAIN sends
    /\ InFlight(k) /\ ~sends[k].hung
    /\ sends' = [sends EXCEPT ![k].hung = TRUE]
    /\ event' = Event("hang", k, <<>>, FALSE, NoResponse)
    /\ UNCHANGED <<userLastPeriodDate, userCycleLength, localStorage,
                   setupScreen, loading, chatContainer, reloads>>

\* The page is loaded again: the script runs from its first line in a new
\* document, and only localStorage is kept.
Reload ==
    /\ reloads < MaxReloads
    /\ reloads' = reloads + 1
    /\ userLastPeriodDate' = Null
    /\ userCycleLength' = Num(28)
    /\ setupScreen' = ""
    /\ loading' = ""
    /\ chatContainer' = <<>>
    /\ sends' = <<>>
    /\ event' = Event("load", 0, <<>>, FALSE, NoResponse)
    /\ UNCHANGED localStorage

Next ==
    \/ \E lp \in LastPeriodFields, cl \in CycleLengthFields : CompleteSetup(lp, cl)
    \/ \E input \in UserInputs : SendMessage(input)
    \/ \E k \in 1..MaxSends, o \in FetchOutcomes(CalcResponses) : CalcFetchSettles(k, o)
    \/ \E k \in 1..MaxSends : CalcJsonSettles(k)
    \/ \E k \in 1..MaxSends, o \in FetchOutcomes(ChatResponses) : ChatFetchSettles(k, o)
    \/ \E k \in 1..MaxSends : ChatJsonSettles(k)

\* One page, from its load on, with every input and every response.  A
\* promise that never settles is, without fairness, a promise whose
\* settlement is never taken.
Spec == Init /\ [][Next]_vars

\* The page with its reloads.
ReloadNext ==
    \/ Next
    \/ Reload

ReloadSpec == Init /\ [][ReloadNext]_vars

\* The responses that take each branch of calculateCyclePhase and of
\* sendMessage once.
BranchCalcResponses ==
    { r \in CalcResponses : r.body.parses => Truthy(Or(r.body.success, r.body.error)) }

BranchChatResponses ==
    { r \in ChatResponses : r.ok /\ (r.body.parses => Truthy(r.body.content)) }

\* The message flow: every response, and a setup form whose cycle-length
\* field is left blank (the flow reads userCycleLength only to pass it on).
FlowNext ==
    \/ \E lp \in LastPeriodFields : CompleteSetup(lp, "")
    \/ \E input \in UserInputs : SendMessage(input)
    \/ \E k \in 1..MaxSends, o \in FetchOutcomes(CalcResponses) : CalcFetchSettles(k, o)
    \/ \E k \in 1..MaxSends : CalcJsonSettles(k)
    \/ \E k \in 1..MaxSends, o \in FetchOutcomes(ChatResponses) : ChatFetchSettles(k, o)
    \/ \E k \in 1..MaxSends : ChatJsonSettles(k)

FlowSpec == Init /\ [][FlowNext]_vars

\* The setup handler: every content of the setup form, and one response for
\* each branch of the message flow (the handler reads no response).
SetupNext ==
    \/ \E lp \in LastPeriodFields, cl \in CycleLengthFields : CompleteSetup(lp, cl)
    \/ \E input \in UserInputs : SendMessage(input)
    \/ \E k \in 1..MaxSends, o \in FetchOutcomes(BranchCalcResponses) : CalcFetchSettles(k, o)
    \/ \E k \in 1..MaxSends : CalcJsonSettles(k)
    \/ \E k \in 1..MaxSends, o \in FetchOutcomes(BranchChatResponses) : ChatFetchSettles(k, o)
    \/ \E k \in 1..MaxSends : ChatJsonSettles(k)

SetupSpec == Init /\ [][SetupNext]_vars

\* The success path: the user sends one message at a time, both services
\* answer, and the completion service returns any of Contents.
ReplyNext ==
    \/ \E lp \in LastPeriodFields : CompleteSetup(lp, "")
    \/ \E input \in UserInputs :
            (\A k \in DOMAIN sends : ~InFlight(k)) /\ SendMessage(input)
    \/ \E k \in 1..MaxSends, r \in CalcSuccesses :
            CalcFetchSettles(k, [rejected |-> FALSE, response |-> r])
    \/ \E k \in 1..MaxSends : CalcJsonSettles(k)
    \/ \E k \in 1..MaxSends, r \in ContentResponses :
            ChatFetchSettles(k, [rejected |-> FALSE, response |-> r])
    \/ \E k \in 1..MaxSends : ChatJsonSettles(k)

ReplySpec == Init /\ [][ReplyNext]_vars

\* One page whose promises settle unless they hang.
HangNext ==
    \/ \E lp \in LastPeriodFields : CompleteSetup(lp, "")
    \/ \E input \in UserInputs : SendMessage(input)
    \/ \E k \in 1..MaxSends, o \in FetchOutcomes(BranchCalcResponses) : CalcFetchSettles(k, o)
    \/ \E k \in 1..MaxSends : CalcJsonSettles(k)
    \/ \E k \in 1..MaxSends, o \in FetchOutcomes(BranchChatResponses) : ChatFetchSettles(k, o)
    \/ \E k \in 1..MaxSends : ChatJsonSettles(k)
    \/ \E k \in 1..MaxSends : Hang(k)

\* The continuation of invocation k after the await it is suspended at.
Continue(k) ==
    \/ \E o \in FetchOutcomes(BranchCalcResponses) : CalcFetchSettles(k, o)
    \/ CalcJsonSettles(k)
    \/ \E o \in FetchOutcomes(BranchChatResponses) : ChatFetchSettles(k, o)
    \/ ChatJsonSettles(k)

\* Every promise that is not hung settles, and the event loop then runs the
\* invocation that awaits it.
Fairness == \A k \in 1..MaxSends : WF_vars(Continue(k))

FairSpec == Init /\ [][HangNext]_vars /\ Fairness

(***************************************************************************)
(* Vocabulary of the properties.                                           *)
(***************************************************************************)
BeginsWith(s, prefix) ==
    Len(s) >= Len(prefix) /\ SubSeq(s, 1, Len(prefix)) = prefix

UserEntry(text) == [text |-> text, sender |-> "user"]
AssistantEntry(text) == [text |-> text, sender |-> "assistant"]

AssistantEntries == { i \in DOMAIN chatContainer : chatContainer[i].sender = "assistant" }
ReturnedSends == { k \in DOMAIN sends : sends[k].pc = "done" }

NoSendInFlight == \A k \in DOMAIN sends : ~InFlight(k)

\* Invocation k starts in this step.
Starts(k) == k \in DOMAIN sends' /\ k \notin DOMAIN sends

\* Invocation k returns in this step.
Returns(k) ==
    /\ k \in DOMAIN sends' /\ sends'[k].pc = "done"
    /\ k \in DOMAIN sends => sends[k].pc # "done"

\* Invocation k issues a request in this step.
Issues(k) ==
    /\ k \in DOMAIN sends' /\ sends'[k].request # NoRequest
    /\ k \in DOMAIN sends => sends[k].request # sends'[k].request

\* This step is the settlement op of some invocation.
Settlement(op) == event'.op = op /\ event'.k \in DOMAIN sends

\* C1: a request to either service is issued only by a send that found
\* CycleSetup present when it started: a send that starts while
\* userLastPeriodDate is unset issues no request, appends its user entry and
\* exactly one assistant entry, the complete-setup prompt, and returns; a
\* send that has returned issues nothing; a send that starts with CycleSetup
\* present asks the calculation service about that very setup.
C1_RequestsOnlyWithSetup ==
    [][ /\ \A k \in 1..MaxSends :
            Starts(k) =>
                IF Truthy(userLastPeriodDate)
                THEN sends'[k].request =
                        CalcRequest(userLastPeriodDate, userCycleLength)
                ELSE /\ \A j \in DOMAIN sends' : ~Issues(j)
                     /\ sends'[k].pc = "done"
                     /\ chatContainer' = chatContainer \o
                            << UserEntry(sends'[k].message),
                               AssistantEntry("Please complete the setup so I can understand your cycle <3") >>
        /\ \A k \in DOMAIN sends :
            sends[k].pc = "done" => k \in DOMAIN sends' /\ ~Issues(k)
      ]_vars

C1_Witness ==
    /\ event.op = "sendMessage"
    /\ ~Truthy(userLastPeriodDate)
    /\ Len(sends) = 2
    /\ Len(chatContainer) = 4
    /\ chatContainer[4] = AssistantEntry(SetupPrompt)

\* C2: once every send has finished, the chat log holds two entries per
\* send, in send order: the k-th send's user entry at position 2k-1 and its
\* assistant entry at position 2k.
C2_LogInSendOrder ==
    NoSendInFlight =>
        /\ Len(chatContainer) = 2 * Len(sends)
        /\ \A k \in DOMAIN sends :
            /\ chatContainer[2 * k - 1] = UserEntry(sends[k].message)
            /\ chatContainer[2 * k].sender = "assistant"

\* C3: whenever no send is in flight the loading indicator is hidden: its
\* display is "none" once a send has finished, and is as the page loaded it
\* while no send has been made.
C3_LoadingHiddenWhenIdle ==
    NoSendInFlight => loading = (IF sends = <<>> THEN "" ELSE "none")

C3_Witness ==
    /\ Len(sends) = 2
    /\ NoSendInFlight
    /\ event.op \in {"calcFetch", "calcJson", "chatFetch", "chatJson"}
    /\ loading = "none"

\* The message of the exception the settlement of this step raises, "" when
\* it raises none.
Raised ==
    CASE Settlement("calcFetch") /\ event'.rejected -> "Failed to fetch"
      [] Settlement("calcFetch") /\ ~event'.rejected /\ ~event'.response.ok ->
            "Failed to calculate cycle phase"
      [] Settlement("calcJson") /\ event'.rejected ->
            "Unexpected token < in JSON at position 0"
      [] Settlement("calcJson") /\ ~event'.rejected
            /\ ~Truthy(event'.response.body.success) ->
            IF Truthy(event'.response.body.error)
            THEN event'.response.body.error.s
            ELSE "Unknown error occurred"
      [] Settlement("chatFetch") /\ event'.rejected -> "Failed to fetch"
      [] Settlement("chatJson") /\ event'.rejected ->
            "Unexpected token < in JSON at position 0"
      [] OTHER -> ""

\* C4: when a network call of a send raises, the send appends exactly one
\* assistant entry, "Error: " followed by the exception's message, and
\* returns; nothing else of the page changes, so the next send is processed
\* as any other.
C4_RaiseAppendsError ==
    [][ Raised # "" =>
            /\ chatContainer' =
                 Append(chatContainer, AssistantEntry("Error: " \o Raised))
            /\ sends' = [sends EXCEPT ![event'.k] = Returned(@.message)]
            /\ UNCHANGED <<userLastPeriodDate, userCycleLength, localStorage,
                           setupScreen>>
      ]_vars

C4_Witness ==
    /\ Len(chatContainer) = 4
    /\ chatContainer[2] = AssistantEntry("Error: Unknown error occurred")
    /\ chatContainer[3].sender = "user"
    /\ chatContainer[4] = AssistantEntry("Rest well today")

\* C5: a non-OK status from either service, and success=false from the
\* calculation service, ends the turn with an assistant entry that begins
\* with "Error: ".
C5_NonOkSurfacesAsError ==
    [][ \/ Settlement("calcFetch") /\ ~event'.rejected /\ ~event'.response.ok
        \/ Settlement("calcJson") /\ ~event'.rejected
              /\ ~Truthy(event'.response.body.success)
        \/ Settlement("chatJson") /\ ~event'.response.ok
        => /\ Len(chatContainer') = Len(chatContainer) + 1
           /\ chatContainer'[Len(chatContainer')].sender = "assistant"
           /\ BeginsWith(chatContainer'[Len(chatContainer')].text, "Error: ")
      ]_vars

\* C6 as stated: a send whose network call hangs still ends, with an error
\* entry in the chat log.
C6_HangSurfacesAsError ==
    \A k \in 1..MaxSends :
        (k \in DOMAIN sends /\ sends[k].hung)
            ~> (k \in DOMAIN sends /\ sends[k].pc = "done")

\* C6 as amended: a send whose network call hangs stays in Sending: the
\* hang itself appends nothing and leaves the loading indicator alone, the
\* send never returns, and since there are as many assistant entries as
\* returned sends, no entry ("Error: " or other) is ever appended for it.
C6_HangStaysSending ==
    /\ [][ /\ event'.op = "hang" =>
                /\ event'.k \in DOMAIN sends' /\ sends'[event'.k].hung
                /\ UNCHANGED <<chatContainer, loading>>
           /\ \A k \in DOMAIN sends :
                sends[k].hung => k \in DOMAIN sends' /\ sends'[k] = sends[k]
         ]_vars
    /\ [](\A k \in DOMAIN sends : sends[k].hung => InFlight(k))
    /\ [](Cardinality(AssistantEntries) = Cardinality(ReturnedSends))

C6_Witness ==
    /\ Len(sends) = 2
    /\ sends[1].hung
    /\ sends[2].pc = "done"
    /\ Len(chatContainer) = 3
    /\ loading = "none"

\* C7: every send that enters Sending returns, unless a network call of
\* its hangs; the step in which a send returns appends exactly one assistant
\* entry and leaves the loading indicator hidden, and no other step appends
\* an assistant entry.
C7_SendReturns ==
    /\ \A k \in 1..MaxSends :
        (k \in DOMAIN sends /\ InFlight(k))
            ~> (k \in DOMAIN sends /\ (sends[k].pc = "done" \/ sends[k].hung))
    /\ [][ /\ \A k \in 1..MaxSends :
                Returns(k) =>
                    /\ loading' = "none"
                    /\ Len(chatContainer') = Len(chatContainer)
                            + (IF Starts(k) THEN 2 ELSE 1)
                    /\ chatContainer'[Len(chatContainer')].sender = "assistant"
           /\ (\A k \in 1..MaxSends : ~Returns(k)) =>
                    \A i \in DOMAIN chatContainer' \ DOMAIN chatContainer :
                        chatContainer'[i].sender = "user"
           /\ \A i \in DOMAIN chatContainer :
                i \in DOMAIN chatContainer' /\ chatContainer'[i] = chatContainer[i]
         ]_vars

C7_Witness ==
    /\ Len(sends) = 2
    /\ NoSendInFlight
    /\ event.op = "chatJson" /\ event.k = 1
    /\ Len(chatContainer) = 4
    /\ loading = "none"

\* C8: confirming setup with an empty last-period date changes neither the
\* in-memory setup, nor the two storage keys, nor the setup UI's visibility.
C8_EmptyDateChangesNothing ==
    [][ event'.op = "completeSetup" /\ event'.fields[1] = "" =>
            UNCHANGED <<userLastPeriodDate, userCycleLength, localStorage,
                        setupScreen>>
      ]_vars

C8_Witness ==
    /\ event.op = "completeSetup"
    /\ event.fields = <<"", "30">>
    /\ setupScreen = ""
    /\ localStorage = [lastPeriodDate |-> Null, cycleLength |-> Null]
    /\ userLastPeriodDate = Null

\* C9: setup survives a reload: whenever the two storage keys are set, the
\* in-memory CycleSetup holds the stored values.
C9_SetupSurvivesReload ==
    localStorage.lastPeriodDate # Null =>
        /\ userLastPeriodDate = localStorage.lastPeriodDate
        /\ Str(JsString(userCycleLength)) = localStorage.cycleLength

IsPositiveInteger(v) == v.t = "number" /\ v.n > 0

\* C10: the cycle length in process-wide state, the one mirrored to storage
\* and the one passed to the calculation service are positive integers.
C10_CycleLengthPositive ==
    /\ IsPositiveInteger(userCycleLength)
    /\ localStorage.cycleLength # Null =>
            IsPositiveInteger(StringToNumber(localStorage.cycleLength.s))
    /\ \A k \in DOMAIN sends :
            sends[k].pc = "calcFetch" =>
                IsPositiveInteger(sends[k].request.cycle_length)

\* C11: when the body of the completion service parses but has no choices
\* (or its first choice no message content), the send appends exactly one
\* assistant entry, the fallback text, and returns: no "Error: " entry.
C11_MissingContentGivesFallback ==
    [][ Settlement("chatJson") /\ ~event'.rejected
            /\ event'.response.body.content = Undefined =>
            /\ chatContainer' =
                 Append(chatContainer,
                        AssistantEntry("I'm sorry -- I couldn't generate a response."))
            /\ Returns(event'.k)
      ]_vars

C11_Witness ==
    /\ event.op = "chatJson" /\ ~event.rejected
    /\ event.response.body.content = Undefined
    /\ Len(chatContainer) = 2
    /\ chatContainer[2] = AssistantEntry(Fallback)
    /\ sends[event.k].pc = "done"

HasTildePair(s) == \E i \in 1..(Len(s) - 1) : SubSeq(s, i, i + 1) = "~~"

\* the strings left of s by removing "~~" sequences, as many as one likes
RECURSIVE Removals(_)
Removals(s) ==
    {s} \cup UNION { Removals(SubSeq(s, 1, i - 1) \o SubSeq(s, i + 2, Len(s))) :
                        i \in { j \in 1..(Len(s) - 1) : SubSeq(s, j, j + 1) = "~~" } }

\* t is s with every "~~" removed and otherwise unchanged
IsWithoutTildePairs(t, s) == t \in Removals(s) /\ ~HasTildePair(t)

\* This step is the success path of a send whose completion returns content.
Replies(content) ==
    /\ Settlement("chatJson") /\ ~event'.rejected
    /\ event'.response.body.content = content

\* C12 as stated: for every content string the completion service returns,
\* the send appends one assistant entry, the content with every "~~" removed.
C12_ReplyIsContentWithoutTildes ==
    [][ \A c \in Contents :
            Replies(Str(c)) =>
                /\ Len(chatContainer') = Len(chatContainer) + 1
                /\ chatContainer'[Len(chatContainer')].sender = "assistant"
                /\ IsWithoutTildePairs(chatContainer'[Len(chatContainer')].text, c)
      ]_vars

\* C12 as amended: for every non-empty content string the send appends one
\* assistant entry, the content with every "~~" removed and otherwise
\* unchanged (so without any "~~"); for the empty content string it appends
\* the fallback text.
C12_NonEmptyReplyIsContentWithoutTildes ==
    [][ \A c \in Contents :
            Replies(Str(c)) =>
                /\ Len(chatContainer') = Len(chatContainer) + 1
                /\ chatContainer'[Len(chatContainer')].sender = "assistant"
                /\ IF c = ""
                   THEN chatContainer'[Len(chatContainer')].text
                            = "I'm sorry -- I couldn't generate a response."
                   ELSE IsWithoutTildePairs(chatContainer'[Len(chatContainer')].text, c)
      ]_vars

C12_Witness ==
    /\ event.op = "chatJson" /\ ~event.rejected
    /\ event.response.body.content = Str("~~a~")
    /\ Len(chatContainer) = 4
    /\ chatContainer[2] = AssistantEntry("")
    /\ chatContainer[4] = AssistantEntry("a~")

\* C13: confirming setup with a non-empty last-period date and a blank
\* cycle-length field stores the date and the cycle length 28, in memory
\* (the number 28) and in storage (the string "28"), and hides the setup UI.
C13_BlankCycleLengthIs28 ==
    [][ event'.op = "completeSetup" /\ event'.fields[1] # ""
            /\ event'.fields[2] = "" =>
            /\ userLastPeriodDate' = Str(event'.fields[1])
            /\ userCycleLength' = Num(28)
            /\ localStorage' = [lastPeriodDate |-> Str(event'.fields[1]),
                                cycleLength |-> Str("28")]
            /\ setupScreen' = "none"
      ]_vars

C13_Witness ==
    /\ event.op = "completeSetup"
    /\ event.fields = <<"2025-01-01", "">>
    /\ userCycleLength = Num(28)
    /\ localStorage.cycleLength = Str("28")
    /\ setupScreen = "none"

\* C14: input is not blocked during Sending: while a send is in flight
\* another message can be sent (up to the bound of the model); and a send
\* that returns while another is still in flight hides the loading
\* indicator all the same, so that a request is outstanding with the
\* indicator hidden.
C14_SendsRaceTheIndicator ==
    /\ []( (\E k \in DOMAIN sends : InFlight(k)) /\ Len(sends) < MaxSends
                => ENABLED SendMessage(" hi ") )
    /\ [][ \A k \in DOMAIN sends :
                Returns(k) /\ (\E j \in DOMAIN sends' : sends'[j].pc \in Awaiting)
                    => loading' = "none"
         ]_vars

C14_Witness ==
    /\ Len(sends) = 2
    /\ sends[1].pc = "done"
    /\ sends[2].pc \in Awaiting /\ sends[2].request # NoRequest
    /\ loading = "none"
    /\ Len(chatContainer) = 3
    /\ chatContainer[2].sender = "user"

\* This step settles a promise of the calculation service for invocation k
\* with a failure: the fetch rejects, the status is not ok, the body does not
\* parse, or data.success is falsy.
CalcFails(k) ==
    /\ event'.k = k
    /\ \/ Settlement("calcFetch") /\ (event'.rejected \/ ~event'.response.ok)
       \/ Settlement("calcJson")
            /\ (event'.rejected \/ ~Truthy(event'.response.body.success))

\* Invocation k issues its request to the completion service in this step.
IssuesCompletion(k) == Issues(k) /\ sends'[k].request.url = ChatRequest("").url

\* C15: within one send the completion service is called at most once, and
\* only after the calculation service returned success for that send: the
\* request is issued in the step that reads a parsed body with a truthy
\* success from an ok response of that send, a send that has issued it (or
\* has returned) never issues it again, and a send whose calculation fails
\* returns without issuing it.
C15_CompletionOnlyAfterCalcSuccess ==
    [][ \A k \in DOMAIN sends' :
            /\ IssuesCompletion(k) =>
                    /\ k \in DOMAIN sends /\ sends[k].pc = "calcJson"
                    /\ Settlement("calcJson") /\ event'.k = k
                    /\ ~event'.rejected
                    /\ event'.response.ok
                    /\ Truthy(event'.response.body.success)
            /\ k \in DOMAIN sends /\ sends[k].pc \in {"chatFetch", "chatJson", "done"}
                    => ~Issues(k)
            /\ CalcFails(k) => Returns(k) /\ ~Issues(k)
      ]_vars

C15_Witness ==
    /\ event.op = "calcJson" /\ event.k = 2
    /\ Len(sends) = 2
    /\ sends[1].pc = "done"
    /\ sends[2].pc = "chatFetch"
    /\ sends[2].request.url = "/api/v1/chat/completions"
    /\ \E i \in DOMAIN chatContainer :
            chatContainer[i] = AssistantEntry("Error: Unknown error occurred")

\* The number of entries this step adds to the chat log.
Added == Len(chatContainer') - Len(chatContainer)

\* C16: the chat log is append-only: every task leaves the entries it finds
\* unchanged in text, sender and position, and adds one entry at the end for
\* each step that calls addMessage: none in a setup confirmation, one in a
\* send start, a success and a failure, and the user entry followed by the
\* prompt in a send that starts without setup (its send start and its
\* needs-setup reply run in one task).
C16_ChatLogAppendOnly ==
    [][ /\ Added >= 0
        /\ SubSeq(chatContainer', 1, Len(chatContainer)) = chatContainer
        /\ event'.op = "completeSetup" => Added = 0
        /\ event'.op = "sendMessage" /\ (\E k \in DOMAIN sends' : Starts(k)) =>
                IF Truthy(userLastPeriodDate)
                THEN /\ Added = 1
                     /\ chatContainer'[Len(chatContainer')].sender = "user"
                ELSE /\ Added = 2
                     /\ chatContainer'[Len(chatContainer') - 1].sender = "user"
                     /\ chatContainer'[Len(chatContainer')] = AssistantEntry(SetupPrompt)
        /\ event'.op \in Awaiting =>
                /\ Added <= 1
                /\ Added = 1 => /\ Returns(event'.k)
                                /\ chatContainer'[Len(chatContainer')].sender = "assistant"
      ]_vars

C16_Witness ==
    /\ event.op = "sendMessage"
    /\ Truthy(userLastPeriodDate)
    /\ Len(chatContainer) = 3
    /\ chatContainer[2] = AssistantEntry(SetupPrompt)
    /\ chatContainer[3] = UserEntry("hi")

\* Every character of s is white space.
IsBlank(s) == \A i \in 1..Len(s) : Char(s, i) \in WhiteSpace

\* C17: a send whose input is empty or holds only white space leaves the
\* chat log, the loading indicator and CycleSetup (in memory and stored)
\* unchanged, starts no invocation and issues no request.
C17_BlankInputChangesNothing ==
    [][ event'.op = "sendMessage" /\ IsBlank(event'.fields[1]) =>
            UNCHANGED <<chatContainer, loading, userLastPeriodDate,
                        userCycleLength, localStorage, setupScreen, sends>>
      ]_vars

C17_Witness ==
    /\ event.op = "sendMessage"
    /\ event.fields = <<"  ">>
    /\ Len(sends) = 1 /\ sends[1].pc \in Awaiting
    /\ loading = "block"
    /\ Len(chatContainer) = 1

\* C18: whenever CycleSetup exists in memory, the stored last-period date is
\* the in-memory one and the stored cycle length is the in-memory one:
\* storage holds its string form, and reading that string as a number gives
\* the in-memory value back.
C18_StorageMirrorsMemory ==
    Truthy(userLastPeriodDate) =>
        /\ localStorage.lastPeriodDate = userLastPeriodDate
        /\ localStorage.cycleLength = Str(JsString(userCycleLength))
        /\ Number(localStorage.cycleLength) = userCycleLength

C18_Witness ==
    /\ event.op = "completeSetup"
    /\ event.fields = <<"", "abc">>
    /\ userCycleLength = Num(30)
    /\ localStorage.cycleLength = Str("30")
    /\ localStorage.lastPeriodDate = Str("2025-01-01")
    /\ Len(sends) = 1

\* C19: CycleSetup is never lost within a page session: once the in-memory
\* last-period date is set, no setup confirmation and no send makes it null
\* or empty again, every send that starts then goes on to the calculation
\* service, and no entry added to the chat log is the complete-setup prompt.
C19_SetupNeverLost ==
    [][ Truthy(userLastPeriodDate) =>
            /\ Truthy(userLastPeriodDate')
            /\ \A k \in DOMAIN sends' : Starts(k) => sends'[k].pc = "calcFetch"
            /\ Added > 0 =>
                    chatContainer'[Len(chatContainer')] # AssistantEntry(SetupPrompt)
      ]_vars

C19_Witness ==
    /\ event.op = "sendMessage"
    /\ userLastPeriodDate = Str("2025-01-01")
    /\ setupScreen = "none"
    /\ Len(sends) = 2
    /\ sends[1].pc = "done" /\ sends[2].pc = "calcFetch"
    /\ chatContainer[2] = AssistantEntry(SetupPrompt)
    /\ Len(chatContainer) = 3

TypeOK ==
    /\ userLastPeriodDate.t \in {"null", "string"}
    /\ userCycleLength.t \in {"number", "NaN"}
    /\ setupScreen \in {"", "none"}
    /\ loading \in {"", "block", "none"}
    /\ Len(sends) <= MaxSends
    /\ reloads \in 0..MaxReloads

====
